---- MODULE Spec2Model ----
(***************************************************************************)
(* A model of datadepth: the schema validator (validators.py), the row     *)
(* synthesizer (synthesizer.py), the profiler (profiler.py) and the        *)
(* command-line handlers (cli.py).                                         *)
(*                                                                         *)
(* JSON objects are functions whose DOMAIN is the set of keys present, so  *)
(* a missing key is a key outside the DOMAIN.  Random sources are inputs   *)
(* of the samplers, chosen by the actions.                                 *)
(***************************************************************************)
EXTENDS Integers, Sequences, FiniteSets, TLC

VARIABLES
    pc,          \* position inside the operation being run
    cmd,         \* CLI: the command invoked
    schema,      \* CLI: the document load_schema returned
    rows,        \* CLI: --rows
    df,          \* CLI: the table generate_rows returned
    outFile,     \* CLI: the CSV file save_rows wrote
    readBack,    \* the table pd.read_csv gives for outFile
    raised,      \* CLI: the exception that left the handler
    echoed,      \* CLI: what click.echo printed
    exitStatus,  \* CLI: the process exit status
    c,           \* sampler: the column descriptor
    n,           \* sampler: the row count
    result,      \* sampler: what the sampler returned
    s,           \* profiler: the column (a pd.Series) being profiled
    sample,      \* profiler: the values s_nonan.sample(...) drew
    out,         \* profiler: the descriptor _profile_column returned
    frame,       \* profiler: the table given to Profiler(df)
    selfDf,      \* profiler: Profiler.df, the cleaned table
    profile,     \* profiler: the document Profiler.profile() returned
    verdict      \* what validate_schema did with that document

cliVars == <<cmd, schema, rows, df, outFile, readBack, raised, echoed, exitStatus>>
sampVars == <<c, n, result>>
colVars == <<s, sample, out>>
profVars == <<frame, selfDf, profile, verdict>>
vars == <<pc, cliVars, sampVars, colVars, profVars>>

(***************************************************************************)
(* Bounds of the model.                                                    *)
(***************************************************************************)
MaxCols == 2      \* column descriptors in a schema document
MaxRows == 2      \* --rows of a CLI invocation
MaxN == 3         \* rows asked of a single sampler
MaxZ == 3         \* normal draws range over -MaxZ..MaxZ standard deviations
MaxStat == 1      \* min and max of a numeric descriptor range over 0..MaxStat
MaxUnique == 2    \* 'unique' of a descriptor ranges over 0..MaxUnique

Has(d, k) == k \in DOMAIN d

Range(f) == {f[i] : i \in DOMAIN f}

NoTable == [names |-> <<>>, nrows |-> -1, data |-> <<>>]

(***************************************************************************)
(* validators.py                                                           *)
(***************************************************************************)
\* Faulty variant: only 'name' is required of a column.
validate_schema_name_only(doc) ==
    IF ~Has(doc, "columns") THEN "ValueError"
    ELSE IF \E i \in 1..Len(doc.columns) : ~({"name"} \subseteq DOMAIN doc.columns[i])
         THEN "ValueError"
         ELSE "ok"

\* "ok" when validate_schema returns, else the exception it raises.
validate_schema(doc) ==
    IF ~Has(doc, "columns") THEN "ValueError"
    ELSE IF \E i \in 1..Len(doc.columns) :
                ~({"name", "type"} \subseteq DOMAIN doc.columns[i])
         THEN "ValueError"
         ELSE "ok"

(***************************************************************************)
(* synthesizer.py: numeric values.  A value is q/Sixth + e * 1e-9, kept as *)
(* the pair (q, e): the sampler divides the range by 6 and floors sigma at *)
(* 1e-9, and |e| * 1e-9 stays far below 1/6.                               *)
(***************************************************************************)
Sixth == 6

Num(x) == [q |-> Sixth * x, e |-> 0]

Lt(a, b) == a.q < b.q \/ (a.q = b.q /\ a.e < b.e)

Leq(a, b) == ~Lt(b, a)

\* Faulty variant: clips at the lower end only.
np_clip_low_only(v, low, high) == IF Lt(v, low) THEN low ELSE v

\* np.clip(v, low, high) = minimum(maximum(v, low), high)
np_clip(v, low, high) ==
    LET m == IF Lt(v, low) THEN low ELSE v
    IN  IF Lt(high, m) THEN high ELSE m

\* One draw of np.random.normal(mu, sigma), z standard deviations from mu,
\* with sigma = max((high - low) / 6, 1e-9).
normal(mu, low, high, z) ==
    IF high - low > 0
    THEN [q |-> Sixth * mu + z * (high - low), e |-> 0]
    ELSE [q |-> Sixth * mu, e |-> z]

ZDraws == (-MaxZ)..MaxZ

Returned(v) == [exc |-> "none", vals |-> v]
Raised(e) == [exc |-> e, vals |-> <<>>]

\* _sample_numeric(c, n) with n = Len(zs) normal draws zs
_sample_numeric(col, zs) ==
    IF ~Has(col, "min") \/ ~Has(col, "max") \/ ~Has(col, "mean")
    THEN Raised("KeyError")
    ELSE Returned([i \in 1..Len(zs) |->
            np_clip(normal(col.mean, col.min, col.max, zs[i]),
                    Num(col.min), Num(col.max))])

(***************************************************************************)
(* synthesizer.py: categorical and text values.  A sample_values entry is  *)
(* [value |-> v] (a plain value) or [value |-> v, freq |-> f] (the list    *)
(* [v, f] the profiler writes).                                            *)
(***************************************************************************)
\* A value of random() is the fraction num/den, 0 <= num < den.
Fractions(den) == {[num |-> k, den |-> den] : k \in 0..(den - 1)}

DefaultUnique == 5

IsList(x) == Has(x, "freq")

\* _as_list(v), v = c.get("sample_values")
_as_list(col) ==
    IF ~Has(col, "sample_values") \/ col.sample_values = <<>>
    THEN <<>>
    ELSE [i \in 1..Len(col.sample_values) |-> col.sample_values[i].value]

\* random.choices(population, k = Len(us)): population[floor(random() * len)]
choices(population, us) ==
    IF Len(us) > 0 /\ Len(population) = 0
    THEN Raised("IndexError")
    ELSE Returned([i \in 1..Len(us) |->
            population[((us[i].num * Len(population)) \div us[i].den) + 1]])

\* Faulty variant: the placeholder labels start at cat1.
CatLabelsFromOne(k) == [i \in 1..k |-> "cat" \o ToString(i)]

CatLabels(k) == [i \in 1..k |-> "cat" \o ToString(i - 1)]

_sample_categorical(col, us) ==
    LET listed == _as_list(col)
        cats == IF listed # <<>> THEN listed
                ELSE CatLabels(IF Has(col, "unique") THEN col.unique
                               ELSE DefaultUnique)
    IN  choices(cats, us)

_sample_text(col, us) ==
    LET listed == _as_list(col)
        vals == IF listed # <<>> THEN listed ELSE <<"lorem ipsum">>
    IN  choices(vals, us)

(***************************************************************************)
(* synthesizer.py: dates.  A timestamp counts seconds from the first day   *)
(* of the calendar, 2024-03-01.  The date string YYYY-MM-DD is written as  *)
(* the number YYYYMMDD, and NotADate stands for any other string.          *)
(***************************************************************************)
SecondsPerDay == 86400

MaxDay == 4       \* the calendar has the days 0..MaxDay

FirstDate == 20240301

NotADate == 0

FormatDate(day) == FirstDate + day

Parses(str) == \E d \in 0..MaxDay : FormatDate(d) = str

\* pd.to_datetime(str) of a parsable date string: midnight of that day
to_datetime(str) == SecondsPerDay * (CHOOSE d \in 0..MaxDay : FormatDate(d) = str)

\* strftime("%Y-%m-%d")
strftime(ts) == FormatDate(ts \div SecondsPerDay)

\* Faulty variant: periods steps of equal whole-day length, the end not pinned.
date_range_whole_days(start, end, periods) ==
    [i \in 1..periods |->
        IF i = 1 THEN start
        ELSE start + (i - 1) * SecondsPerDay
                     * (((end - start) \div SecondsPerDay) \div (periods - 1))]

\* pd.date_range(start, end, periods): np.linspace(0, end - start, periods)
\* cast to integers, plus start
date_range(start, end, periods) ==
    [i \in 1..periods |->
        IF i = 1 THEN start
        ELSE IF i = periods THEN end
        ELSE start + (((i - 1) * (end - start)) \div (periods - 1))]

DefaultDate == 20000101

_sample_datetime(col, k) ==
    IF ~Has(col, "min") \/ ~Has(col, "max")
       \/ ~Parses(col.min) \/ ~Parses(col.max)
    THEN Returned([i \in 1..k |-> DefaultDate])
    ELSE LET dates == date_range(to_datetime(col.min), to_datetime(col.max), k)
         IN  Returned([i \in 1..k |-> strftime(dates[i])])

(***************************************************************************)
(* synthesizer.py: generate_rows.  cols is the dict under construction: a  *)
(* sequence of [name, vals] in insertion order; assigning an existing key  *)
(* keeps its position.                                                     *)
(***************************************************************************)
\* Faulty variant: a new column goes to the front of the table.
PutFront(cols, name, vals) ==
    <<[name |-> name, vals |-> vals]>>
        \o SelectSeq(cols, LAMBDA x : x.name # name)

Put(cols, name, vals) ==
    IF \E j \in 1..Len(cols) : cols[j].name = name
    THEN [j \in 1..Len(cols) |->
            IF cols[j].name = name THEN [name |-> name, vals |-> vals]
            ELSE cols[j]]
    ELSE Append(cols, [name |-> name, vals |-> vals])

\* pd.DataFrame(cols)
DataFrame(cols) ==
    [names |-> [j \in 1..Len(cols) |-> cols[j].name],
     nrows |-> IF Len(cols) = 0 THEN 0 ELSE Len(cols[1].vals),
     data  |-> [j \in 1..Len(cols) |-> cols[j].vals]]

Failure(e, i) == [exc |-> e, at |-> i, table |-> NoTable]
Success(cols) == [exc |-> "none", at |-> 0, table |-> DataFrame(cols)]

\* The random sources: Z holds the values a normal draw can take (in
\* standard deviations), U the values random() can take.
Coarse == [Z |-> {-MaxZ, 0, MaxZ}, U |-> Fractions(2)]
Fine == [Z |-> ZDraws, U |-> Fractions(DefaultUnique)]

\* What the sampler chosen by col["type"] can return for k rows.
Sampled(col, k, rnd) ==
    IF col.type = "numeric"
    THEN {_sample_numeric(col, zs) : zs \in [1..k -> rnd.Z]}
    ELSE IF col.type = "datetime"
    THEN {_sample_datetime(col, k)}
    ELSE IF col.type = "text"
    THEN {_sample_text(col, us) : us \in [1..k -> rnd.U]}
    ELSE {_sample_categorical(col, us) : us \in [1..k -> rnd.U]}

\* The loop of generate_rows from column i on, cols built so far.  The
\* right-hand side of cols[col["name"]] = ... is evaluated before the key.
RECURSIVE generate_from(_, _, _, _, _)
generate_from(columns, k, rnd, i, cols) ==
    IF i > Len(columns) THEN {Success(cols)}
    ELSE LET col == columns[i]
         IN  IF ~Has(col, "type") THEN {Failure("KeyError", i)}
             ELSE UNION {
                    IF r.exc # "none" THEN {Failure(r.exc, i)}
                    ELSE IF ~Has(col, "name") THEN {Failure("KeyError", i)}
                    ELSE generate_from(columns, k, rnd, i + 1,
                                       Put(cols, col.name, r.vals))
                    : r \in Sampled(col, k, rnd)}

\* generate_rows(schema, rows): every outcome the random sources allow.
generate_rows(doc, k, rnd) ==
    IF ~Has(doc, "columns") THEN {Failure("KeyError", 0)}
    ELSE generate_from(doc.columns, k, rnd, 1, <<>>)

\* save_rows(df, out): df.to_csv(out, index=False), a header line and one
\* line per row.
save_rows(table) ==
    [header |-> table.names,
     lines  |-> [r \in 1..table.nrows |->
                    [j \in 1..Len(table.names) |-> table.data[j][r]]]]

\* pd.read_csv(out): the tables it can give.  A file written from a table
\* with no columns has nothing to parse: the read fails (NoTable) or gives
\* a table with no rows.
read_csv(file) ==
    IF Len(file.header) = 0
    THEN {NoTable, [names |-> <<>>, nrows |-> 0, data |-> <<>>]}
    ELSE {[names |-> file.header,
           nrows |-> Len(file.lines),
           data  |-> [j \in 1..Len(file.header) |->
                        [r \in 1..Len(file.lines) |-> file.lines[r][j]]]]}

(***************************************************************************)
(* The schema documents given to the command line.  A descriptor carries   *)
(* only fields its sampler reads.                                          *)
(***************************************************************************)
Names == {"a", "b"}

NumericStats == [min |-> 0, max |-> 1, mean |-> 2]

Listed == <<[value |-> "x", freq |-> 1], [value |-> "y", freq |-> 1]>>

CliBodies ==
    {("type" :> "numeric") @@ [k \in F |-> NumericStats[k]] :
        F \in {{"min", "max", "mean"}, {"max", "mean"},
               {"min", "mean"}, {"min", "max"}}}
    \cup {("type" :> "datetime") @@ [k \in F |-> FormatDate(0)] :
        F \in {{"min", "max"}, {"max"}}}
    \cup {("type" :> "text"),
          ("type" :> "categorical") @@ ("unique" :> 2)
              @@ ("sample_values" :> Listed),
          ("type" :> "categorical") @@ ("unique" :> 0),
          ("type" :> "int")}

CliDescriptors ==
    {("name" :> nm) @@ b : nm \in Names, b \in CliBodies}
    \cup {("name" :> "a"), ("type" :> "text")}

SeqsUpTo(S, k) == UNION {[1..m -> S] : m \in 0..k}

CliDocuments ==
    {[num_rows |-> 0]}
    \cup {[columns |-> cs, num_rows |-> 0] : cs \in SeqsUpTo(CliDescriptors, MaxCols)}

NoFile == [header |-> <<>>, lines |-> <<>>, written |-> FALSE]

\* The variables of the operations a behaviour does not run.
CliIdle ==
    /\ cmd = "none" /\ schema = <<>> /\ rows = 0 /\ df = NoTable
    /\ outFile = NoFile /\ readBack = NoTable /\ raised = "none"
    /\ echoed = <<>> /\ exitStatus = -1
SampIdle == c = <<>> /\ n = 0 /\ result = <<>>
ColIdle == s = <<>> /\ sample = <<>> /\ out = <<>>
ProfIdle == frame = <<>> /\ selfDf = <<>> /\ profile = <<>> /\ verdict = "none"

(***************************************************************************)
(* cli.py                                                                  *)
(***************************************************************************)
Init ==
    /\ pc = "start"
    /\ cmd \in {"generate", "validate", "preview"}
    /\ schema \in CliDocuments
    /\ rows \in 0..MaxRows
    /\ df = NoTable
    /\ outFile = NoFile
    /\ readBack = NoTable
    /\ raised = "none"
    /\ echoed = <<>>
    /\ exitStatus = -1
    /\ SampIdle /\ ColIdle /\ ProfIdle

Uncaught(e) ==
    /\ raised' = e
    /\ exitStatus' = 1
    /\ pc' = "done"

\* generate_cmd, lines 83-84: load_schema, validate_schema
GenerateValidate ==
    /\ cmd = "generate" /\ pc = "start"
    /\ IF validate_schema(schema) = "ok"
       THEN pc' = "validated" /\ UNCHANGED <<raised, exitStatus>>
       ELSE Uncaught(validate_schema(schema))
    /\ UNCHANGED <<cmd, schema, rows, df, outFile, readBack, echoed, sampVars, colVars, profVars>>

\* generate_cmd, line 85: generate_rows
GenerateRows ==
    /\ cmd = "generate" /\ pc = "validated"
    /\ \E o \in generate_rows(schema, rows, Coarse) :
         IF o.exc = "none"
         THEN df' = o.table /\ pc' = "generated"
              /\ UNCHANGED <<raised, exitStatus>>
         ELSE Uncaught(o.exc) /\ UNCHANGED df
    /\ UNCHANGED <<cmd, schema, rows, outFile, readBack, echoed, sampVars, colVars, profVars>>

\* generate_cmd, lines 86-87: save_rows, click.echo
GenerateSave ==
    /\ cmd = "generate" /\ pc = "generated"
    /\ outFile' = save_rows(df) @@ [written |-> TRUE]
    /\ echoed' = Append(echoed, "Generated")
    /\ exitStatus' = 0
    /\ pc' = "done"
    /\ UNCHANGED <<cmd, schema, rows, df, readBack, raised, sampVars, colVars, profVars>>

\* tests/test_generate.py, line 23: pd.read_csv of the file written
ReadBack ==
    /\ pc = "done" /\ outFile.written
    /\ readBack' \in read_csv(outFile)
    /\ pc' = "read"
    /\ UNCHANGED <<cmd, schema, rows, df, outFile, raised, echoed, exitStatus,
                   sampVars, colVars, profVars>>

\* validate_cmd
ValidateCmd ==
    /\ cmd = "validate" /\ pc = "start"
    /\ IF validate_schema(schema) = "ok"
       THEN /\ echoed' = Append(echoed, "Schema is valid")
            /\ exitStatus' = 0
            /\ UNCHANGED raised
       ELSE /\ echoed' = Append(echoed, "error")
            /\ raised' = "SystemExit"
            /\ exitStatus' = 1
    /\ pc' = "done"
    /\ UNCHANGED <<cmd, schema, rows, df, outFile, readBack, sampVars, colVars, profVars>>

\* preview_cmd
PreviewCmd ==
    /\ cmd = "preview" /\ pc = "start"
    /\ \E o \in generate_rows(schema, rows, Coarse) :
         IF o.exc = "none"
         THEN /\ df' = o.table
              /\ echoed' = Append(echoed, "table")
              /\ exitStatus' = 0
              /\ pc' = "done"
              /\ UNCHANGED raised
         ELSE Uncaught(o.exc) /\ UNCHANGED <<df, echoed>>
    /\ UNCHANGED <<cmd, schema, rows, outFile, readBack, sampVars, colVars, profVars>>

Next ==
    \/ GenerateValidate
    \/ GenerateRows
    \/ GenerateSave
    \/ ReadBack
    \/ ValidateCmd
    \/ PreviewCmd

Spec == Init /\ [][Next]_vars

(***************************************************************************)
(* One column through generate_rows: every field combination of every     *)
(* type, every outcome of the random sources.                              *)
(***************************************************************************)
NoFields == [k \in {} |-> 0]

NumericStatsSet ==
    {st \in [min : 0..MaxStat, max : 0..MaxStat, mean : (-1)..(MaxStat + 1)] :
        st.min <= st.max}

DateStrings == {FormatDate(d) : d \in 0..MaxDay} \cup {NotADate}

DateStatsSet ==
    {st \in [min : DateStrings, max : DateStrings] :
        (Parses(st.min) /\ Parses(st.max)) => st.min <= st.max}

SampleValueFields ==
    {NoFields,
     "sample_values" :> <<>>,
     "sample_values" :> <<[value |-> "x"], [value |-> "y"]>>,
     "sample_values" :> Listed}

UniqueFields == {NoFields} \cup {"unique" :> u : u \in 0..MaxUnique}

SampleBodies ==
    {("type" :> "numeric") @@ [k \in F |-> st[k]] :
        F \in SUBSET {"min", "max", "mean"}, st \in NumericStatsSet}
    \cup {("type" :> "datetime") @@ [k \in F |-> st[k]] :
        F \in SUBSET {"min", "max"}, st \in DateStatsSet}
    \cup {("type" :> "text") @@ sv : sv \in SampleValueFields}
    \cup {("type" :> ty) @@ sv @@ un :
        ty \in {"categorical", "int"}, sv \in SampleValueFields,
        un \in UniqueFields}

SampleDescriptors == {("name" :> "v") @@ b : b \in SampleBodies}

InitSample ==
    /\ pc = "sample"
    /\ c \in SampleDescriptors
    /\ n \in 0..MaxN
    /\ result = Failure("none", 0)
    /\ CliIdle /\ ColIdle /\ ProfIdle

\* generate_rows({"columns": [c]}, n)
Sample ==
    /\ pc = "sample"
    /\ result' \in generate_rows([columns |-> <<c>>], n, Fine)
    /\ pc' = "sampled"
    /\ UNCHANGED <<c, n, cliVars, colVars, profVars>>

NextSample == Sample

SpecSample == InitSample /\ [][NextSample]_vars

(***************************************************************************)
(* Properties of the synthesizer, under SpecSample.                        *)
(***************************************************************************)
Column == result.table.data[1]

FullNumeric == c.type = "numeric" /\ {"min", "max", "mean"} \subseteq DOMAIN c

ValidDates ==
    /\ c.type = "datetime" /\ {"min", "max"} \subseteq DOMAIN c
    /\ Parses(c.min) /\ Parses(c.max)

\* The day a YYYY-MM-DD string of the calendar names.
DayOf(date) == CHOOSE d \in 0..MaxDay : FormatDate(d) = date

Gap(i) == DayOf(Column[i + 1]) - DayOf(Column[i])

\* C1: for a numeric descriptor with min <= max, any mean and any n >= 0,
\* numeric synthesis gives n values, each within [min, max]; when
\* min = max every value equals min.
C1_NumericWithinRange ==
    (pc = "sampled" /\ FullNumeric) =>
        /\ result.exc = "none"
        /\ Len(Column) = n
        /\ \A i \in 1..n :
              /\ Leq(Num(c.min), Column[i])
              /\ Leq(Column[i], Num(c.max))
              /\ (c.min = c.max => Column[i] = Num(c.min))

\* A numeric column whose mean lies above max was synthesized.
C1_Witness ==
    /\ pc = "sampled" /\ FullNumeric
    /\ c.mean > c.max /\ c.min < c.max /\ n >= 2
    /\ result.exc = "none"

\* C5 as stated: for valid min and max and n >= 2 the first date is min,
\* the last is max, and every two consecutive output dates differ by the
\* same number of days.
C5_EvenlySpacedDates ==
    (pc = "sampled" /\ ValidDates /\ n >= 2) =>
        /\ result.exc = "none"
        /\ Len(Column) = n
        /\ Column[1] = c.min
        /\ Column[n] = c.max
        /\ \A i, j \in 1..(n - 1) : Gap(i) = Gap(j)

\* C5 amended: the first date is min, the last is max, the dates never go
\* back, two gaps between consecutive output dates differ by at most one
\* day, and the gaps are all equal when n - 1 divides the number of days
\* from min to max.
C5_DatesSpacedWithinOneDay ==
    (pc = "sampled" /\ ValidDates /\ n >= 2) =>
        /\ result.exc = "none"
        /\ Len(Column) = n
        /\ Column[1] = c.min
        /\ Column[n] = c.max
        /\ \A i \in 1..(n - 1) : Gap(i) >= 0
        /\ \A i, j \in 1..(n - 1) : Gap(i) - Gap(j) <= 1
        /\ ((DayOf(c.max) - DayOf(c.min)) % (n - 1) = 0 =>
                \A i \in 1..(n - 1) :
                    Gap(i) * (n - 1) = DayOf(c.max) - DayOf(c.min))

\* Dates were synthesized whose consecutive gaps are not all equal.
C5_Witness ==
    /\ pc = "sampled" /\ ValidDates /\ n >= 3
    /\ result.exc = "none"
    /\ \E i, j \in 1..(n - 1) : Gap(i) # Gap(j)

LacksNumericField == c.type = "numeric" /\ ~FullNumeric

LacksDateField == c.type = "datetime" /\ ~({"min", "max"} \subseteq DOMAIN c)

LacksSampleValues == ~Has(c, "sample_values")

ToCategorical == c.type \notin {"numeric", "datetime", "text"}

PlaceholderLabels ==
    {"cat" \o ToString(i) :
        i \in 0..((IF Has(c, "unique") THEN c.unique ELSE DefaultUnique) - 1)}

NumericFails ==
    LacksNumericField =>
        result.exc = "KeyError" /\ result.at = 1 /\ result.table = NoTable

DateFallsBack ==
    LacksDateField =>
        /\ result.exc = "none"
        /\ Column = [i \in 1..n |-> DefaultDate]

TextFallsBack ==
    (c.type = "text" /\ LacksSampleValues) =>
        /\ result.exc = "none"
        /\ Column = [i \in 1..n |-> "lorem ipsum"]

CategoricalFallsBack ==
    /\ result.exc = "none"
    /\ Len(Column) = n
    /\ \A i \in 1..n : Column[i] \in PlaceholderLabels

\* C7 as stated: a numeric column lacking min, max or mean makes
\* generate_rows fail with a missing key at that column and return no
\* table, and no other column fails; a datetime column lacking min or max
\* gives the default date n times; a text or categorical column lacking
\* sample_values gives n placeholder values.
C7_MissingFieldsAsStated ==
    pc = "sampled" =>
        /\ NumericFails
        /\ DateFallsBack
        /\ TextFallsBack
        /\ (ToCategorical /\ LacksSampleValues) => CategoricalFallsBack
        /\ (result.exc = "KeyError" <=> LacksNumericField)

EmptyPool ==
    /\ ToCategorical
    /\ _as_list(c) = <<>>
    /\ Has(c, "unique") /\ c.unique = 0
    /\ n >= 1

\* C7 amended: as stated, except that a categorical column lacking
\* sample_values whose unique is 0 has no placeholder to draw from: for
\* n >= 1 generate_rows fails there with an IndexError, and that is the
\* only failure besides the numeric one.
C7_MissingFields ==
    pc = "sampled" =>
        /\ NumericFails
        /\ DateFallsBack
        /\ TextFallsBack
        /\ (ToCategorical /\ LacksSampleValues /\ ~EmptyPool)
                => CategoricalFallsBack
        /\ EmptyPool =>
                result.exc = "IndexError" /\ result.at = 1
                /\ result.table = NoTable
        /\ (result.exc = "KeyError" <=> LacksNumericField)
        /\ (result.exc = "IndexError" <=> EmptyPool)
        /\ result.exc \in {"none", "KeyError", "IndexError"}

\* A categorical column with neither sample_values nor unique was
\* synthesized from the placeholder labels.
C7_Witness ==
    /\ pc = "sampled" /\ n >= 2
    /\ c.type = "categorical" /\ LacksSampleValues /\ ~Has(c, "unique")
    /\ result.exc = "none"
    /\ Column[1] = "cat0" /\ Column[2] = "cat4"

(***************************************************************************)
(* Properties of the validator and the command line, under Spec.           *)
(***************************************************************************)
\* The document has no 'columns' key, or a column lacks 'name' or 'type'.
Malformed(doc) ==
    \/ "columns" \notin DOMAIN doc
    \/ \E i \in DOMAIN doc.columns :
          "name" \notin DOMAIN doc.columns[i]
          \/ "type" \notin DOMAIN doc.columns[i]

\* C2: validate_schema raises ValueError exactly when the document is
\* malformed: generate_cmd lets it out as it is, validate_cmd turns
\* it into exit status 1; every other document passes, whatever its types
\* and type-specific fields.
C2_ValidateRaisesIffMalformed ==
    /\ (cmd = "generate" /\ pc # "start") =>
            (raised = "ValueError" <=> Malformed(schema))
    /\ (cmd = "validate" /\ pc = "done") =>
            (raised = "SystemExit" <=> Malformed(schema))

\* validate_schema accepted a document whose columns have an unknown type
\* and a numeric type without its fields.
C2_Witness ==
    /\ cmd = "generate" /\ pc = "validated"
    /\ Len(schema.columns) = 2
    /\ schema.columns[1].type = "int"
    /\ schema.columns[2].type = "numeric" /\ ~Has(schema.columns[2], "mean")

\* generate_rows has run on a document the validator accepted.
GenerateRowsRan ==
    cmd = "generate" /\ pc \in {"generated", "done", "read"}
    /\ raised # "ValueError"

SchemaNames == [i \in 1..Len(schema.columns) |-> schema.columns[i].name]

RowsAndColumnsAsAsked ==
    /\ raised = "none"
    /\ df.nrows = rows
    /\ df.names = SchemaNames
    /\ \A j \in 1..Len(df.data) : Len(df.data[j]) = rows
    /\ pc = "read" => readBack.nrows = rows

\* C4 as stated: for every document the validator accepts and every N,
\* generate_rows returns a table of N rows with one column per descriptor,
\* in the order of the descriptors, and the CSV read back has N rows.
C4_TableShapeAsStated == GenerateRowsRan => RowsAndColumnsAsAsked

\* The document has a column, its names are distinct, its numeric columns
\* carry min, max and mean, and no column drawn by the categorical sampler
\* has unique = 0 in place of sample_values.
Synthesizable(doc) ==
    /\ Len(doc.columns) >= 1
    /\ \A i, j \in 1..Len(doc.columns) :
          doc.columns[i].name = doc.columns[j].name => i = j
    /\ \A i \in 1..Len(doc.columns) :
          LET col == doc.columns[i]
          IN  /\ col.type = "numeric" =>
                    {"min", "max", "mean"} \subseteq DOMAIN col
              /\ (col.type \notin {"numeric", "datetime", "text"}
                   /\ (~Has(col, "sample_values") \/ col.sample_values = <<>>)
                   /\ Has(col, "unique"))
                    => col.unique >= 1

\* C4 amended: the same for every accepted document that is synthesizable.
C4_TableShape ==
    (GenerateRowsRan /\ Synthesizable(schema)) => RowsAndColumnsAsAsked

\* A two-column table was generated, written and read back.
C4_Witness ==
    /\ cmd = "generate" /\ pc = "read" /\ rows >= 2
    /\ Synthesizable(schema) /\ Len(schema.columns) = 2
    /\ schema.columns[1].name = "b"
    /\ readBack.nrows = rows /\ readBack.names = <<"b", "a">>

\* C6: whenever a command that reads a schema file is given a malformed
\* schema, the handler catches the error, prints a message and exits with
\* status 1; generate_cmd then never generates rows nor writes the CSV.
C6_MalformedSchemaIsCaught ==
    (pc = "done" /\ Malformed(schema)) =>
        /\ raised = "SystemExit"
        /\ exitStatus = 1
        /\ echoed # <<>>
        /\ cmd = "generate" => (df = NoTable /\ ~outFile.written)

(***************************************************************************)
(* profiler.py.  A cell is a string or NaN (a missing value).  A column    *)
(* (a pd.Series) is [vals, missing]: vals counts each non-missing value,   *)
(* missing counts the NaN cells.  Parsing is pandas', fixed here for the   *)
(* strings the model uses: "7" is a number only, "2024" is a number and    *)
(* a date, "2024-03-02" is a date only, "" is to_numeric's NaN.  Dates     *)
(* are encoded as in the synthesizer model, as integers YYYYMMDD.          *)
(***************************************************************************)
MaxLen == 22        \* non-missing values of a profiled column
MaxMissing == 1     \* missing values of a profiled column
MaxTableRows == 3   \* rows of a table given to Profiler

NaN == "NaN"

SampleSize == 20

HeadSize == 20

_METADATA_TOKENS == {"ticker", "date", "nan", ""}

\* str.lower()
Lower(str) == IF str = "Q1" THEN "q1" ELSE str

\* row.astype(str).str.lower(), for one cell
AsStrLower(cell) == IF cell = NaN THEN "nan" ELSE Lower(cell)

\* re.fullmatch(r"[a-z_]+", str)
IsAlpha(str) == str \in {"abc", "nan", "v", "x"}

\* pd.to_numeric does not raise on the string
ParsesNumeric(v) == v \in {"7", "2024", ""}

\* pd.to_numeric gives a number, not NaN
IsNumber(v) == v \in {"7", "2024"}

NumericValue(v) == IF v = "7" THEN 7 ELSE 2024

\* pd.to_datetime(v, errors="coerce").date(); NotADate is NaT
ParseDate(v) ==
    IF v = "2024" THEN 20240101
    ELSE IF v = "2024-03-02" THEN 20240302
    ELSE NotADate

ParsesDate(v) == ParseDate(v) # NotADate

RECURSIVE SumCounts(_, _)
SumCounts(b, S) ==
    IF S = {} THEN 0
    ELSE LET v == CHOOSE x \in S : TRUE
         IN  b[v] + SumCounts(b, S \ {v})

\* len() of the values counted by b
Size(b) == SumCounts(b, DOMAIN b)

Present(b) == {v \in DOMAIN b : b[v] > 0}

\* len(s)
SeriesLen(col) == Size(col.vals) + col.missing

Min(a, b) == IF a < b THEN a ELSE b

\* s_nonan.sample(min(20, len(s_nonan)), random_state=42): the samples a
\* seed can draw, each the column less the values left out.
Samples(nonan) ==
    LET drop == Size(nonan) - Min(SampleSize, Size(nonan))
    IN  {[v \in DOMAIN nonan |-> nonan[v] - d[v]] :
            d \in {x \in [DOMAIN nonan -> 0..drop] :
                     /\ Size(x) = drop
                     /\ \A v \in DOMAIN nonan : x[v] <= nonan[v]}}

\* Faulty variant: a unique ratio of exactly 0.4 counts as categorical.
_infer_col_type_le(nonan, smp) ==
    IF Size(nonan) = 0 THEN "text"
    ELSE IF \A v \in Present(smp) : ParsesNumeric(v) THEN "numeric"
    ELSE IF 10 * SumCounts(smp, {v \in Present(smp) : ParsesDate(v)})
                > 8 * Size(smp)
    THEN "datetime"
    ELSE IF 10 * Cardinality(Present(nonan)) <= 4 * Size(nonan)
    THEN "categorical"
    ELSE "text"

\* _infer_col_type(s), nonan = s.dropna(), smp the sample drawn from it
_infer_col_type(nonan, smp) ==
    IF Size(nonan) = 0 THEN "text"
    ELSE IF \A v \in Present(smp) : ParsesNumeric(v) THEN "numeric"
    ELSE IF 10 * SumCounts(smp, {v \in Present(smp) : ParsesDate(v)})
                > 8 * Size(smp)
    THEN "datetime"
    ELSE IF 10 * Cardinality(Present(nonan)) < 4 * Size(nonan)
    THEN "categorical"
    ELSE "text"

\* s.value_counts(dropna=True).index: the values in an order of descending
\* count; every order of the ties is allowed.
ValueCounts(nonan) ==
    {order \in [1..Cardinality(Present(nonan)) -> Present(nonan)] :
        /\ \A i, j \in DOMAIN order : order[i] = order[j] => i = j
        /\ \A i, j \in DOMAIN order :
              i < j => nonan[order[i]] >= nonan[order[j]]}

\* A float as a fraction; NaN is 0/0.
Float(num, den) == [num |-> num, den |-> den]

\* mean, std (population: the root of sumsq / n - (sum / n)^2, kept as
\* its three terms), min and max of
\* pd.to_numeric(s, errors="coerce")
NumericProfile(nonan) ==
    LET nums == {v \in Present(nonan) : IsNumber(v)}
        cnt == SumCounts(nonan, nums)
        sum == SumCounts([v \in nums |-> nonan[v] * NumericValue(v)], nums)
        ssq == SumCounts([v \in nums |->
                    nonan[v] * NumericValue(v) * NumericValue(v)], nums)
    IN  IF cnt = 0
        THEN [mean |-> Float(0, 0), std |-> [sumsq |-> 0, sum |-> 0, n |-> 0],
              min |-> Float(0, 0), max |-> Float(0, 0)]
        ELSE [mean |-> Float(sum, cnt),
              std  |-> [sumsq |-> ssq, sum |-> sum, n |-> cnt],
              min  |-> Float(NumericValue(CHOOSE v \in nums :
                          \A w \in nums : NumericValue(v) <= NumericValue(w)), 1),
              max  |-> Float(NumericValue(CHOOSE v \in nums :
                          \A w \in nums : NumericValue(v) >= NumericValue(w)), 1)]

\* unique and sample_values of a categorical column, vc the value counts
CategoricalProfile(col, vc) ==
    [unique |-> Len(vc),
     sample_values |->
        [i \in 1..Min(HeadSize, Len(vc)) |->
            [value |-> vc[i],
             freq  |-> Float(col.vals[vc[i]], SeriesLen(col))]]]

\* min and max of pd.to_datetime(s, errors="coerce") as dates
DatetimeProfile(nonan) ==
    LET dates == {ParseDate(v) : v \in {w \in Present(nonan) : ParsesDate(w)}}
    IN  [min |-> CHOOSE d \in dates : \A e \in dates : d <= e,
         max |-> CHOOSE d \in dates : \A e \in dates : d >= e]

\* Profiler._profile_column(col), for the sample smp and value counts vc
_profile_column(name, col, smp, vc) ==
    LET col_type == _infer_col_type(col.vals, smp)
        base == [name |-> name, type |-> col_type, nullable |-> col.missing > 0]
    IN  IF col_type = "numeric" THEN base @@ NumericProfile(col.vals)
        ELSE IF col_type = "categorical" THEN base @@ CategoricalProfile(col, vc)
        ELSE IF col_type = "datetime" THEN base @@ DatetimeProfile(col.vals)
        ELSE base

(***************************************************************************)
(* One column through _profile_column.                                     *)
(***************************************************************************)
ColumnValues == {"7", "2024", "2024-03-02", "x"}

Columns ==
    {[vals |-> b, missing |-> m] :
        b \in {x \in [ColumnValues -> 0..MaxLen] : Size(x) <= MaxLen},
        m \in 0..MaxMissing}

InitColumn ==
    /\ pc = "column"
    /\ s \in Columns
    /\ sample = <<>>
    /\ out = <<>>
    /\ CliIdle /\ SampIdle /\ ProfIdle

ProfileColumn ==
    /\ pc = "column"
    /\ \E smp \in Samples(s.vals), vc \in ValueCounts(s.vals) :
         /\ sample' = smp
         /\ out' = _profile_column("k", s, smp, vc)
    /\ pc' = "described"
    /\ UNCHANGED <<s, cliVars, sampVars, profVars>>

NextColumn == ProfileColumn

SpecColumn == InitColumn /\ [][NextColumn]_vars

(***************************************************************************)
(* Column type inference and the categorical descriptor.                   *)
(***************************************************************************)
AllNumeric(smp) == \A v \in Present(smp) : ParsesNumeric(v)

DateCount(smp) == SumCounts(smp, {v \in Present(smp) : ParsesDate(v)})

MostlyDates(smp) == 10 * DateCount(smp) > 8 * Size(smp)

Distinct(col) == Cardinality(Present(col.vals))

LowRatio(col) == 10 * Distinct(col) < 4 * Size(col.vals)

IsSampleOf(smp, col) ==
    /\ Size(smp) = Min(SampleSize, Size(col.vals))
    /\ \A v \in DOMAIN smp : smp[v] <= col.vals[v]

\* C8: the inferred type is one of numeric, datetime, categorical, text,
\* the first match of: no non-missing value -> text; every value of the
\* sample of min(20, n) values parses as a number -> numeric; more than
\* 80% of the sample parses as a date -> datetime; distinct / non-missing
\* below 0.4 -> categorical; otherwise text.
C8_TypeByFirstMatch ==
    pc = "described" =>
        /\ IsSampleOf(sample, s)
        /\ out.type \in {"numeric", "datetime", "categorical", "text"}
        /\ out.type =
             IF Size(s.vals) = 0 THEN "text"
             ELSE IF AllNumeric(sample) THEN "numeric"
             ELSE IF MostlyDates(sample) THEN "datetime"
             ELSE IF LowRatio(s) THEN "categorical"
             ELSE "text"

\* C8 witness: a column of more than 20 values, one of them not a date and
\* left in the sample, is a datetime column although its distinct ratio is
\* below 0.4.
C8_Witness ==
    /\ pc = "described"
    /\ Size(s.vals) > SampleSize
    /\ sample["x"] > 0
    /\ LowRatio(s)
    /\ out.type = "datetime"

\* C9: a categorical column's descriptor has unique = the number of
\* distinct non-missing values and sample_values = the min(20, unique)
\* most frequent values in non-increasing order of frequency, each with
\* frequency = its count / the number of non-missing values.
C9_FrequencyOverNonMissing ==
    (pc = "described" /\ out.type = "categorical") =>
        /\ out.unique = Distinct(s)
        /\ Len(out.sample_values) = Min(HeadSize, out.unique)
        /\ \A i, j \in DOMAIN out.sample_values :
              i < j => s.vals[out.sample_values[i].value]
                         >= s.vals[out.sample_values[j].value]
        /\ \A i \in DOMAIN out.sample_values :
              LET p == out.sample_values[i]
              IN  p.freq.num * Size(s.vals) = s.vals[p.value] * p.freq.den

(***************************************************************************)
(* Profiler: a table (a pd.DataFrame) is [names, index, rows], index the   *)
(* row labels and rows the rows of cells in column order.                  *)
(***************************************************************************)
Positions(t) == [i \in 1..Len(t.rows) |-> i]

\* df[mask]: the rows at the chosen positions, labels kept
Take(t, pos) ==
    [names |-> t.names,
     index |-> [k \in 1..Len(pos) |-> t.index[pos[k]]],
     rows  |-> [k \in 1..Len(pos) |-> t.rows[pos[k]]]]

\* df.dropna(how="all")
dropna(t) ==
    Take(t, SelectSeq(Positions(t),
                      LAMBDA i : \E j \in DOMAIN t.rows[i] : t.rows[i][j] # NaN))

\* _looks_like_header(row, column_names)
_looks_like_header(row, column_names) ==
    LET row_str == [j \in DOMAIN row |-> AsStrLower(row[j])]
    IN  IF row_str = [j \in DOMAIN column_names |-> Lower(column_names[j])]
        THEN TRUE
        ELSE \A j \in DOMAIN row_str : IsAlpha(row_str[j])

\* the lambda of _clean, lines 76-77
IsMetadataRow(row, column_names) ==
    \/ _looks_like_header(row, column_names)
    \/ \A j \in DOMAIN row : AsStrLower(row[j]) \in _METADATA_TOKENS

\* df.reset_index(drop=True)
reset_index(t) == [t EXCEPT !.index = [k \in 1..Len(t.rows) |-> k - 1]]

\* Faulty variant: the kept rows keep their labels.
_clean_keep_index(t) ==
    LET d == dropna(t)
    IN  IF Len(d.rows) = 0
        THEN [exc |-> "TypeError", table |-> d]
        ELSE [exc |-> "none",
              table |-> Take(d, SelectSeq(Positions(d),
                          LAMBDA i : ~IsMetadataRow(d.rows[i], d.names)))]

\* Profiler._clean(df), t the table df.  With no row left after dropna, df.apply(axis=1)
\* gives an empty float64 Series, and ~ of it raises TypeError.
_clean(t) ==
    LET d == dropna(t)
    IN  IF Len(d.rows) = 0
        THEN [exc |-> "TypeError", table |-> d]
        ELSE [exc |-> "none",
              table |-> reset_index(Take(d, SelectSeq(Positions(d),
                          LAMBDA i : ~IsMetadataRow(d.rows[i], d.names))))]

TableValues == {"Q1", "abc", "7", ""}

\* self.df[col], for the column at position j
ColumnOf(t, j) ==
    [vals    |-> [v \in TableValues |->
                    Cardinality({i \in DOMAIN t.rows : t.rows[i][j] = v})],
     missing |-> Cardinality({i \in DOMAIN t.rows : t.rows[i][j] = NaN})]

\* a sample for each column of t
SampleChoices(t) ==
    {f \in [DOMAIN t.names -> UNION {Samples(ColumnOf(t, j).vals) : j \in DOMAIN t.names}] :
        \A j \in DOMAIN t.names : f[j] \in Samples(ColumnOf(t, j).vals)}

\* an order of the value counts for each column of t
ValueCountChoices(t) ==
    {f \in [DOMAIN t.names -> UNION {ValueCounts(ColumnOf(t, j).vals) : j \in DOMAIN t.names}] :
        \A j \in DOMAIN t.names : f[j] \in ValueCounts(ColumnOf(t, j).vals)}

\* Profiler.profile(), for the samples smps and value counts vcs
profile_of(t, smps, vcs) ==
    [columns  |-> [j \in DOMAIN t.names |->
                    _profile_column(t.names[j], ColumnOf(t, j), smps[j], vcs[j])],
     num_rows |-> Len(t.rows)]

FirstCells == {NaN, "Q1", "abc", "7"}
SecondCells == {NaN, "", "7"}

Table(names, rs) ==
    [names |-> names, index |-> [k \in 1..Len(rs) |-> k - 1], rows |-> rs]

Tables ==
    {Table(<<"Q1">>, rs) :
        rs \in SeqsUpTo({<<a>> : a \in FirstCells}, MaxTableRows)}
    \cup
    {Table(<<"Q1", "v">>, rs) :
        rs \in SeqsUpTo({<<a, b>> : a \in FirstCells, b \in SecondCells},
                          MaxTableRows)}

InitProfile ==
    /\ pc = "table"
    /\ frame \in Tables
    /\ selfDf = <<>>
    /\ profile = <<>>
    /\ verdict = "none"
    /\ CliIdle /\ SampIdle /\ ColIdle

\* Profiler(df): __init__ cleans the table
Clean ==
    /\ pc = "table"
    /\ LET r == _clean(frame)
       IN  IF r.exc = "none"
           THEN /\ selfDf' = r.table
                /\ pc' = "cleaned"
                /\ UNCHANGED verdict
           ELSE /\ verdict' = r.exc
                /\ pc' = "failed"
                /\ UNCHANGED selfDf
    /\ UNCHANGED <<frame, profile, cliVars, sampVars, colVars>>

\* .profile()
Profile ==
    /\ pc = "cleaned"
    /\ \E smps \in SampleChoices(selfDf), vcs \in ValueCountChoices(selfDf) :
         profile' = profile_of(selfDf, smps, vcs)
    /\ pc' = "profiled"
    /\ UNCHANGED <<frame, selfDf, verdict, cliVars, sampVars, colVars>>

\* validate_schema(profile)
Validate ==
    /\ pc = "profiled"
    /\ verdict' = validate_schema(profile)
    /\ pc' = "validated"
    /\ UNCHANGED <<frame, selfDf, profile, cliVars, sampVars, colVars>>

NextProfile == Clean \/ Profile \/ Validate

SpecProfile == InitProfile /\ [][NextProfile]_vars

(***************************************************************************)
(* The table cleaner and the round trip through validate_schema.           *)
(***************************************************************************)
Cleaned == pc \in {"cleaned", "profiled", "validated"}

LowerCells(row) == [j \in DOMAIN row |-> AsStrLower(row[j])]

FullyMissing(row) == \A j \in DOMAIN row : row[j] = NaN

AllLetters(row) == \A j \in DOMAIN row : IsAlpha(LowerCells(row)[j])

AllTokens(row) == \A j \in DOMAIN row : LowerCells(row)[j] \in _METADATA_TOKENS

EqualsNames(row) == LowerCells(row) = frame.names

EqualsLoweredNames(row) ==
    LowerCells(row) = [j \in DOMAIN frame.names |-> Lower(frame.names[j])]

OtherwiseKept(row) ==
    ~FullyMissing(row) /\ ~AllLetters(row) /\ ~AllTokens(row)

KeptAsStated ==
    SelectSeq(frame.rows, LAMBDA row : OtherwiseKept(row) /\ ~EqualsNames(row))

Kept ==
    SelectSeq(frame.rows,
              LAMBDA row : OtherwiseKept(row) /\ ~EqualsLoweredNames(row))

CleanedAs(kept) ==
    /\ selfDf.names = frame.names
    /\ selfDf.rows = kept
    /\ selfDf.index = [k \in 1..Len(kept) |-> k - 1]
    /\ pc \in {"profiled", "validated"} => profile.num_rows = Len(kept)

====
